---- MODULE Spec2Model ----
(***************************************************************************)
(* Hyperbee: an append-only copy-on-write B-tree over an append-only log.  *)
(*                                                                         *)
(* The log (feed) is a sequence of blocks; block seq (0-based) is          *)
(* feed[seq + 1].  Block 0 is the header, every later block is a Node      *)
(* {key, value, index} whose index is the encoded YoloIndex.               *)
(*                                                                         *)
(* A Batch is modelled as a record b ("the batch object") holding its      *)
(* object heap: TreeNode objects (b.nodes), Child objects (b.childs), the  *)
(* block cache (b.cached, b.ptr), the staged BatchEntry objects (b.pend),  *)
(* root and length.  Every operator that models a method takes the feed f  *)
(* and the batch b and returns the batch after the call; the value the     *)
(* method returns is left in b.ret, a thrown error in b.err.               *)
(* Array positions are 0-based as in the source.                           *)
(***************************************************************************)
EXTENDS Integers, Sequences, FiniteSets, TLC

T == 5
MIN_KEYS == T - 1
MAX_CHILDREN == MIN_KEYS * 2 + 1

(* ------------------------------------------------------------------ *)
(* Small helpers on arrays (0-based positions).                        *)
(* ------------------------------------------------------------------ *)
At(s, i) == s[i + 1]

Splice(s, i, x) == SubSeq(s, 1, i) \o <<x>> \o SubSeq(s, i + 1, Len(s))

Remove(s, i) == SubSeq(s, 1, i) \o SubSeq(s, i + 2, Len(s))

cmp(a, b) == IF a < b THEN -1 ELSE IF b < a THEN 1 ELSE 0

\* the array <<F(i), ..., F(n)>>, built element by element
RECURSIVE Build(_, _, _)
Build(F(_), i, n) == IF i > n THEN <<>> ELSE <<F(i)>> \o Build(F, i + 1, n)

\* K applied to v: v is evaluated once and named by K's parameter
Let(v, K(_)) == K(v)

(* ------------------------------------------------------------------ *)
(* Objects.  null is 0: keys, node ids and child ids start at 1.       *)
(* ------------------------------------------------------------------ *)
Key(seq, value) == [seq |-> seq, value |-> value]

Child(seq, offset, value) == [seq |-> seq, offset |-> offset, value |-> value]

TreeNode(block, keys, children) ==
  [block |-> block, keys |-> keys, children |-> children, changed |-> FALSE]

Header == [key |-> 0, value |-> 0, index |-> <<>>]

\* new Batch(tree, autoFlush, cache = true, options); failAt is the number of
\* the feed.get call that fails (0: none fails), nf counts the calls made.
Batch(autoFlush, checkout, failAt) ==
  [autoFlush |-> autoFlush, checkout |-> checkout,
   nodes |-> <<>>, childs |-> <<>>, ptr |-> <<>>, cached |-> {},
   pend |-> <<>>, root |-> 0, length |-> 0,
   nf |-> 0, failAt |-> failAt, err |-> "ok", ret |-> 0, idx |-> <<>>,
   out |-> <<>>]

Ok(b) == b.err = "ok"

Throw(b, e) == [b EXCEPT !.err = e]

Ret(b, v) == [b EXCEPT !.ret = v]

\* an awaited call that left the batch b1: the code after the await (K) runs
\* when the call resolved, and the rejection is passed on when it did not
Try(b1, K(_)) == IF Ok(b1) THEN K(b1) ELSE b1

NewNode(b, node) ==
  [b EXCEPT !.nodes = Append(@, node), !.ret = Len(b.nodes) + 1]

\* TreeNode.create(block)
create(b, block) ==
  NewNode(b, [TreeNode(block, <<>>, <<>>) EXCEPT !.changed = TRUE])

(* ------------------------------------------------------------------ *)
(* Block codec: YoloIndex levels hold the key seqs and the children    *)
(* flattened to seq, offset, seq, offset, ...                          *)
(* ------------------------------------------------------------------ *)
RECURSIVE Flatten(_, _)
Flatten(b, cs) ==
  IF cs = <<>> THEN <<>>
  ELSE <<b.childs[Head(cs)].seq, b.childs[Head(cs)].offset>> \o Flatten(b, Tail(cs))

\* one level of deflate(index): the node of the Child with id c
deflateLevel(b, c) ==
  [keys |-> Build(LAMBDA j : b.nodes[b.childs[c].value].keys[j].seq,
                  1, Len(b.nodes[b.childs[c].value].keys)),
   children |-> Flatten(b, b.nodes[b.childs[c].value].children)]

\* deflate(index): index is an array of Child ids, each with a node as value
deflate(b, index) == Build(LAMBDA i : deflateLevel(b, index[i]), 1, Len(index))

\* One YoloIndex level l of block seq turned into the arrays of Pointers:
\* Key(seq, null) and Child(seq, offset, null) objects.  The TreeNode made
\* by getTreeNode shares these arrays, so the level's arrays are kept as one
\* node object.  b.ret = the node.
inflateLevel(b, seq, l) ==
  NewNode([b EXCEPT !.childs = @ \o
             Build(LAMBDA i : Child(l.children[2 * i - 1], l.children[2 * i], 0),
                   1, Len(l.children) \div 2)],
          TreeNode(seq, Build(LAMBDA i : Key(l.keys[i], 0), 1, Len(l.keys)),
                   Build(LAMBDA i : Len(b.childs) + i, 1, Len(l.children) \div 2)))

RECURSIVE inflateLevels(_, _, _, _)
inflateLevels(b, seq, levels, ids) ==
  IF levels = <<>> THEN [b EXCEPT !.ptr = (seq :> ids) @@ @]
  ELSE Let(inflateLevel(b, seq, Head(levels)), LAMBDA b2 :
         inflateLevels(b2, seq, Tail(levels), Append(ids, b2.ret)))

inflate(f, b, seq) == inflateLevels(b, seq, f[seq + 1].index, <<>>)

(* ------------------------------------------------------------------ *)
(* Batch.getBlock / BlockEntry.getTreeNode                              *)
(* ------------------------------------------------------------------ *)
\* Batch.getBlock(seq): the cache, else feed.get(seq), which may fail.
getBlock(f, b, seq) ==
  IF seq \in b.cached \/ seq \in DOMAIN b.pend THEN b
  ELSE IF b.nf + 1 = b.failAt \/ seq >= Len(f)
       THEN [b EXCEPT !.nf = @ + 1, !.err = "fetch"]
       ELSE [b EXCEPT !.nf = @ + 1, !.cached = @ \cup {seq}]

\* block.key of a block the batch holds
blockKey(f, b, seq) ==
  IF seq \in DOMAIN b.pend THEN b.pend[seq].key ELSE f[seq + 1].key

\* block.getTreeNode(offset), for BatchEntry and BlockEntry; a missing
\* entry makes the source read a property of undefined (TypeError).
getTreeNode(f, b, seq, offset) ==
  IF seq \in DOMAIN b.pend
  THEN IF offset >= Len(b.pend[seq].pendingIndex)
            \/ At(b.pend[seq].pendingIndex, offset) = 0
       THEN Throw(b, "type")
       ELSE Ret(b, b.childs[At(b.pend[seq].pendingIndex, offset)].value)
  ELSE Let(IF seq \in DOMAIN b.ptr THEN b ELSE inflate(f, b, seq), LAMBDA b1 :
         IF offset >= Len(b1.ptr[seq]) THEN Throw(b1, "type")
         ELSE [b1 EXCEPT !.nodes[At(b1.ptr[seq], offset)].changed = FALSE,
                         !.ret = At(b1.ptr[seq], offset)])

\* TreeNode.getKey(index)
getKey(f, b, n, index) ==
  LET node == b.nodes[n]
      key == At(node.keys, index)
  IN IF key.value # 0 THEN Ret(b, key.value)
     ELSE IF node.block = 0 THEN Throw(b, "type")
     ELSE Try(IF key.seq = node.block THEN b ELSE getBlock(f, b, key.seq),
              LAMBDA b1 :
                [b1 EXCEPT !.nodes[n].keys[index + 1].value =
                              blockKey(f, b1, key.seq),
                           !.ret = blockKey(f, b1, key.seq)])

\* getChildNode that looks the child up in the newest block of the log
getChildNodeLatest(f, b, n, index) ==
  LET c == At(b.nodes[n].children, index)
  IN Try(getBlock(f, b, Len(f) - 1), LAMBDA b1 :
       Try(getTreeNode(f, b1, Len(f) - 1, b.childs[c].offset), LAMBDA b2 :
         [b2 EXCEPT !.childs[c].value = b2.ret]))

\* TreeNode.getChildNode(index)
getChildNode(f, b, n, index) ==
  LET node == b.nodes[n]
      c == At(node.children, index)
      child == b.childs[c]
  IN IF child.value # 0 THEN Ret(b, child.value)
     ELSE IF node.block = 0 THEN Throw(b, "type")
     ELSE Try(IF child.seq = node.block THEN b ELSE getBlock(f, b, child.seq),
              LAMBDA b1 :
                Try(getTreeNode(f, b1, child.seq, child.offset), LAMBDA b2 :
                  [b2 EXCEPT !.childs[c].value = b2.ret]))

(* ------------------------------------------------------------------ *)
(* The binary search loop of Batch.get, Batch.put, Batch.del and       *)
(* TreeNode.insertKey: b.ret = [found, i], i the hit or the insertion  *)
(* position.  Every getKey may suspend on a fetch.                     *)
(* ------------------------------------------------------------------ *)
RECURSIVE search(_, _, _, _, _, _)
search(f, b, n, key, s, e) ==
  IF s >= e THEN Ret(b, [found |-> FALSE, i |-> s])
  ELSE Try(getKey(f, b, n, (s + e) \div 2), LAMBDA b1 :
         IF cmp(key, b1.ret) = 0
         THEN Ret(b1, [found |-> TRUE, i |-> (s + e) \div 2])
         ELSE IF cmp(key, b1.ret) < 0 THEN search(f, b1, n, key, s, (s + e) \div 2)
         ELSE search(f, b1, n, key, (s + e) \div 2 + 1, e))

(* ------------------------------------------------------------------ *)
(* HyperBee.getRoot / Batch.getRoot / Batch.get                         *)
(* ------------------------------------------------------------------ *)
\* a length that follows the log whatever the checkout
lengthLatest(f, b) == Len(f)

\* the length of the log a handle with this checkout works on
lengthAt(f, b) == IF b.checkout # 0 THEN b.checkout ELSE Len(f)

\* HyperBee.getRoot(opts, batch) on a writable feed: b.ret = node or null
treeGetRoot(f, b) ==
  IF lengthAt(f, b) < 2 THEN Ret(b, 0)
  ELSE Try(getBlock(f, b, lengthAt(f, b) - 1), LAMBDA b1 :
         getTreeNode(f, b1, lengthAt(f, b) - 1, 0))

\* getRoot that ignores the root the batch has staged
getRootOfTree(f, b) == treeGetRoot(f, b)

\* Batch.getRoot()
getRoot(f, b) == IF b.root # 0 THEN Ret(b, b.root) ELSE treeGetRoot(f, b)

NullEntry == [seq |-> 0, key |-> 0, value |-> 0]

\* BlockEntry.final() of the block at seq
final(f, b, seq) ==
  IF seq \in DOMAIN b.pend
  THEN [seq |-> seq, key |-> b.pend[seq].key, value |-> b.pend[seq].value]
  ELSE [seq |-> seq, key |-> f[seq + 1].key, value |-> f[seq + 1].value]

\* the return of Batch.get on a hit on key i of node
getFinal(f, b, node, i) ==
  Try(getBlock(f, b, At(b.nodes[node].keys, i).seq), LAMBDA b2 :
    Ret(b2, final(f, b2, At(b.nodes[node].keys, i).seq)))

RECURSIVE getLoop(_, _, _, _)
getLoop(f, b, node, key) ==
  Try(search(f, b, node, key, 0, Len(b.nodes[node].keys)), LAMBDA b1 :
    IF b1.ret.found THEN getFinal(f, b1, node, b1.ret.i)
    ELSE IF Len(b1.nodes[node].children) = 0 THEN Ret(b1, NullEntry)
    ELSE Try(getChildNode(f, b1, node, b1.ret.i), LAMBDA b2 :
           getLoop(f, b2, b2.ret, key)))

\* Batch.get(key): b.ret = {seq, key, value} or NullEntry
get(f, b, key) ==
  Try(getRoot(f, b), LAMBDA b1 :
    IF b1.ret = 0 THEN Ret(b1, NullEntry) ELSE getLoop(f, b1, b1.ret, key))

(* ------------------------------------------------------------------ *)
(* TreeNode.insertKey / split / indexChanges                            *)
(* ------------------------------------------------------------------ *)
\* the insertion of insertKey reporting a split one key later
insertAtLate(b, n, i, key, child) ==
  Let(IF child = 0 THEN [b EXCEPT !.nodes[n].keys = Splice(@, i, key)]
      ELSE [b EXCEPT !.nodes[n].keys = Splice(@, i, key),
                     !.childs = Append(@, Child(0, 0, child)),
                     !.nodes[n].children = Splice(@, i + 1, Len(b.childs) + 1)],
      LAMBDA b3 : [b3 EXCEPT !.nodes[n].changed = TRUE,
                             !.ret = Len(b3.nodes[n].keys) < MAX_CHILDREN + 1])

\* lines 100-105: key goes to position i of node n, child after it
insertAt(b, n, i, key, child) ==
  Let(IF child = 0 THEN [b EXCEPT !.nodes[n].keys = Splice(@, i, key)]
      ELSE [b EXCEPT !.nodes[n].keys = Splice(@, i, key),
                     !.childs = Append(@, Child(0, 0, child)),
                     !.nodes[n].children = Splice(@, i + 1, Len(b.childs) + 1)],
      LAMBDA b3 : [b3 EXCEPT !.nodes[n].changed = TRUE,
                             !.ret = Len(b3.nodes[n].keys) < MAX_CHILDREN])

\* insertKey that keeps the old key reference when the key is present
insertKeyNoReplace(f, b, n, key, child) ==
  Try(search(f, b, n, key.value, 0, Len(b.nodes[n].keys)), LAMBDA b1 :
    IF b1.ret.found
    THEN [b1 EXCEPT !.nodes[n].changed = TRUE, !.ret = TRUE]
    ELSE insertAt(b1, n, b1.ret.i, key, child))

\* TreeNode.insertKey(key, child): b.ret = "no split needed"
insertKey(f, b, n, key, child) ==
  Try(search(f, b, n, key.value, 0, Len(b.nodes[n].keys)), LAMBDA b1 :
    IF b1.ret.found
    THEN [b1 EXCEPT !.nodes[n].changed = TRUE,
                    !.nodes[n].keys[b1.ret.i + 1] = key, !.ret = TRUE]
    ELSE insertAt(b1, n, b1.ret.i, key, child))

\* lines 144-157 of split: the median is taken off node n, the right half of
\* the children ch goes to node right
splitOff(b, n, right, ch, len) ==
  LET ks == b.nodes[n].keys
      nc == Len(ch)
  IN [b EXCEPT !.nodes[n].keys = SubSeq(ks, 1, Len(ks) - 1),
               !.nodes[right].children =
                  IF nc = 0 THEN @ ELSE SubSeq(ch, nc - len, nc),
               !.nodes[n].children =
                  IF nc = 0 THEN @ ELSE SubSeq(ch, 1, nc - len - 1),
               !.nodes[n].changed = TRUE,
               !.ret = [median |-> ks[Len(ks)], right |-> right]]

\* TreeNode.split(): b.ret = [median, right]; the right half has left this
\* node before the median is loaded.
split(f, b, n) ==
  LET keys == b.nodes[n].keys
      nk == Len(keys)
      len == nk \div 2
  IN Let(create(b, b.nodes[n].block), LAMBDA b1 :
       Try(getKey(f, [b1 EXCEPT !.nodes[b1.ret].keys = SubSeq(keys, nk - len + 1, nk),
                                !.nodes[n].keys = SubSeq(keys, 1, nk - len)],
                  n, nk - len - 1),
           LAMBDA b3 : splitOff(b3, n, b1.ret, b.nodes[n].children, len)))

\* TreeNode.indexChanges(index, seq), index being b.idx: b.ret = offset
RECURSIVE indexChanges(_, _, _), indexChildren(_, _, _, _)
RECURSIVE indexChildrenLoaded(_, _, _, _)
RECURSIVE indexChildrenKeepSeq(_, _, _, _)
indexChanges(b, n, seq) ==
  Ret(indexChildren([b EXCEPT !.idx = Append(@, 0), !.nodes[n].changed = FALSE],
                    n, 0, seq),
      Len(b.idx))

\* the loop of indexChanges indexing every child that is loaded, changed or not
indexChildrenLoaded(b, n, i, seq) ==
  IF i >= Len(b.nodes[n].children) THEN b
  ELSE LET c == At(b.nodes[n].children, i)
           child == b.childs[c]
       IN IF child.value = 0
          THEN indexChildrenLoaded(b, n, i + 1, seq)
          ELSE Let(indexChanges([b EXCEPT !.childs[c].seq = seq], child.value, seq),
                   LAMBDA b1 :
                     indexChildrenLoaded([b1 EXCEPT !.childs[c].offset = b1.ret,
                                                    !.idx[b1.ret + 1] = c],
                                         n, i + 1, seq))

\* the loop of indexChanges leaving the seq of every changed child as it is
indexChildrenKeepSeq(b, n, i, seq) ==
  IF i >= Len(b.nodes[n].children) THEN b
  ELSE LET c == At(b.nodes[n].children, i)
           child == b.childs[c]
       IN IF child.value = 0 \/ ~b.nodes[child.value].changed
          THEN indexChildrenKeepSeq(b, n, i + 1, seq)
          ELSE Let(indexChanges(b, child.value, seq),
                   LAMBDA b1 :
                     indexChildrenKeepSeq([b1 EXCEPT !.childs[c].offset = b1.ret,
                                                     !.idx[b1.ret + 1] = c],
                                          n, i + 1, seq))

indexChildren(b, n, i, seq) ==
  IF i >= Len(b.nodes[n].children) THEN b
  ELSE LET c == At(b.nodes[n].children, i)
           child == b.childs[c]
       IN IF child.value = 0 \/ ~b.nodes[child.value].changed
          THEN indexChildren(b, n, i + 1, seq)
          ELSE Let(indexChanges([b EXCEPT !.childs[c].seq = seq], child.value, seq),
                   LAMBDA b1 :
                     indexChildren([b1 EXCEPT !.childs[c].offset = b1.ret,
                                              !.idx[b1.ret + 1] = c],
                                   n, i + 1, seq))

\* Node.encode({key, value, index: deflate(index)})
encode(b, key, value, index) ==
  [key |-> key, value |-> value, index |-> deflate(b, index)]

\* lines 572-587 of _append on the index b.idx: the Child of the root is
\* entry 0 of it
appendIndexed(b, autoFlush, root, seq, key, value) ==
  Let([b EXCEPT !.childs = Append(@, Child(seq, 0, root)),
                !.idx[1] = Len(b.childs) + 1],
      LAMBDA b2 :
        IF autoFlush
        THEN [b2 EXCEPT !.out = <<encode(b2, key, value, b2.idx)>>, !.ret = 0]
        ELSE [b2 EXCEPT
                !.nodes[root].block = IF @ = 0 THEN seq ELSE @,
                !.pend = (seq :> [key |-> key, value |-> value,
                                  pendingIndex |-> b2.idx]) @@ @,
                !.root = root, !.length = @ + 1, !.ret = 0])

\* Batch._append(root, seq, key, value): an auto-flushing batch hands the
\* encoded block to _appendBatch (b.out), another one stages a BatchEntry.
_append(b, root, seq, key, value) ==
  appendIndexed(indexChanges([b EXCEPT !.idx = <<>>], root, seq),
                b.autoFlush, root, seq, key, value)

(* ------------------------------------------------------------------ *)
(* Batch.put                                                            *)
(* ------------------------------------------------------------------ *)
\* lines 445-468: b.ret = [hit, node, stack]
RECURSIVE putDescend(_, _, _, _, _)
putDescend(f, b, node, target, stack) ==
  IF Len(b.nodes[node].children) = 0
  THEN Ret(b, [hit |-> FALSE, node |-> node, stack |-> stack])
  ELSE Try(search(f, [b EXCEPT !.nodes[node].changed = TRUE], node, target.value,
                  0, Len(b.nodes[node].keys)),
           LAMBDA b2 :
             IF b2.ret.found
             THEN [b2 EXCEPT !.nodes[node].keys[b2.ret.i + 1] = target,
                             !.nodes[node].changed = TRUE,
                             !.ret = [hit |-> TRUE, node |-> node, stack |-> stack]]
             ELSE Try(getChildNode(f, b2, node, b2.ret.i), LAMBDA b3 :
                    putDescend(f, b3, b3.ret, target, Append(stack, node))))

\* lines 480-484: a new root above node and its new right sibling
newRoot(b, node, median, right) ==
  Let(create(b, b.nodes[node].block), LAMBDA b2 :
    [b2 EXCEPT !.nodes[b2.ret].keys = <<median>>,
               !.nodes[b2.ret].children = <<Len(b2.childs) + 1, Len(b2.childs) + 2>>,
               !.childs = @ \o <<Child(0, 0, node), Child(0, 0, right)>>])

\* lines 472-486: b.ret = root
RECURSIVE putSplit(_, _, _, _, _, _)
putSplit(f, b, node, stack, root, needsSplit) ==
  IF ~needsSplit THEN Ret(b, root)
  ELSE Try(split(f, b, node), LAMBDA b1 :
         IF stack # <<>>
         THEN Try(insertKey(f, b1, stack[Len(stack)], b1.ret.median, b1.ret.right),
                  LAMBDA b2 :
                    putSplit(f, b2, stack[Len(stack)],
                             SubSeq(stack, 1, Len(stack) - 1), root, ~b2.ret))
         ELSE newRoot(b1, node, b1.ret.median, b1.ret.right))

\* a seq that leaves out the operations pending in the batch
nextSeqOfFeed(f, b) == Len(f)

\* the seq of the block of the operation being run: feed.length + this.length
nextSeq(f, b) == Len(f) + b.length

\* lines 445-488 of put, from the root down
putAt(f, b, root, seq, key, value) ==
  Try(putDescend(f, b, root, Key(seq, key), <<>>), LAMBDA b3 :
    IF b3.ret.hit THEN _append(b3, root, seq, key, value)
    ELSE Try(insertKey(f, b3, b3.ret.node, Key(seq, key), 0), LAMBDA b4 :
           Try(putSplit(f, b4, b3.ret.node, b3.ret.stack, root, ~b4.ret),
               LAMBDA b5 : _append(b5, b5.ret, seq, key, value))))

\* Batch.put(key, value)
put(f, b, key, value) ==
  Try(getRoot(f, b), LAMBDA b1 :
    Let(IF b1.ret = 0 THEN create(b1, 0) ELSE b1, LAMBDA b2 :
      putAt(f, b2, b2.ret, nextSeq(f, b), key, value)))

(* ------------------------------------------------------------------ *)
(* Deletion: removeKey, siblings, merge, leafSize, setKeyToNearestLeaf, *)
(* rebalance, Batch.del                                                 *)
(* ------------------------------------------------------------------ *)
\* removeKey that leaves the child next to the key in place
removeKeyKeepChild(b, n, index) ==
  [b EXCEPT !.nodes[n].keys = Remove(@, index), !.nodes[n].changed = TRUE]

\* TreeNode.removeKey(index)
removeKey(b, n, index) ==
  IF Len(b.nodes[n].children) = 0
  THEN [b EXCEPT !.nodes[n].keys = Remove(@, index), !.nodes[n].changed = TRUE]
  ELSE [b EXCEPT !.nodes[n].keys = Remove(@, index),
                 !.childs[At(b.nodes[n].children, index + 1)].seq = 0,
                 !.nodes[n].children = Remove(@, index + 1),
                 !.nodes[n].changed = TRUE]

\* the position of node n among the children of parent, -1 when it is none
indexOfChild(b, n, parent) ==
  LET ch == b.nodes[parent].children
      at == {i \in 0..(Len(ch) - 1) : b.childs[At(ch, i)].value = n}
  IN IF at = {} THEN 0 - 1 ELSE CHOOSE x \in at : \A y \in at : x <= y

\* TreeNode.siblings(parent): b.ret = [left, index, right], null being 0
siblings(f, b, n, parent) ==
  LET i == indexOfChild(b, n, parent)
  IN IF i < 0 THEN Throw(b, "Bad parent")
     ELSE Try(IF i # 0 THEN getChildNode(f, b, parent, i - 1) ELSE Ret(b, 0),
              LAMBDA b1 :
                Try(IF i < Len(b.nodes[parent].children) - 1
                    THEN getChildNode(f, b1, parent, i + 1) ELSE Ret(b1, 0),
                    LAMBDA b2 :
                      Ret(b2, [left |-> b1.ret, index |-> i, right |-> b2.ret])))

\* merge that leaves the median out
mergeNoMedian(b, n, node, median) ==
  [b EXCEPT !.nodes[n].changed = TRUE,
            !.nodes[n].keys = @ \o b.nodes[node].keys,
            !.nodes[n].children = @ \o b.nodes[node].children]

\* TreeNode.merge(node, median), called on n
merge(b, n, node, median) ==
  [b EXCEPT !.nodes[n].changed = TRUE,
            !.nodes[n].keys = Append(@, median) \o b.nodes[node].keys,
            !.nodes[n].children = @ \o b.nodes[node].children]

\* leafSize(node, goLeft): b.ret = number of keys of the outermost leaf
RECURSIVE leafSize(_, _, _, _)
leafSize(f, b, node, goLeft) ==
  IF Len(b.nodes[node].children) = 0 THEN Ret(b, Len(b.nodes[node].keys))
  ELSE Try(getChildNode(f, b, node,
                        IF goLeft THEN 0 ELSE Len(b.nodes[node].children) - 1),
           LAMBDA b1 : leafSize(f, b1, b1.ret, goLeft))

\* the walks of lines 616 and 620 over the nodes leafSize has loaded:
\* the path from node down to its outermost leaf
RECURSIVE leafPath(_, _, _)
leafPath(b, node, goLeft) ==
  LET ch == b.nodes[node].children
  IN IF ch = <<>> THEN <<node>>
     ELSE <<node>> \o leafPath(b, b.childs[IF goLeft THEN ch[1] ELSE ch[Len(ch)]].value,
                               goLeft)

\* lines 615-617: key index of node becomes the first key of the leaf that
\* ends path
takeFirst(b, node, index, stack, path) ==
  [b EXCEPT !.nodes[node].keys[index + 1] = Head(b.nodes[path[Len(path)]].keys),
            !.nodes[path[Len(path)]].keys = Tail(@),
            !.ret = stack \o path]

\* lines 619-621: key index of node becomes the last key of the leaf that
\* ends path
takeLast(b, node, index, stack, path) ==
  LET ks == b.nodes[path[Len(path)]].keys
  IN [b EXCEPT !.nodes[node].keys[index + 1] = ks[Len(ks)],
               !.nodes[path[Len(path)]].keys = SubSeq(ks, 1, Len(ks) - 1),
               !.ret = stack \o path]

\* setKeyToNearestLeaf that goes right when the two leaves are of one size
setKeyToNearestLeafTiesRight(f, b, node, index, stack) ==
  Try(getChildNode(f, b, node, index), LAMBDA bl :
    Try(getChildNode(f, bl, node, index + 1), LAMBDA br :
      Try(leafSize(f, br, bl.ret, FALSE), LAMBDA ls :
        Try(leafSize(f, ls, br.ret, TRUE), LAMBDA rs :
          IF ls.ret <= rs.ret
          THEN takeFirst(rs, node, index, stack, leafPath(rs, br.ret, TRUE))
          ELSE takeLast(rs, node, index, stack, leafPath(rs, bl.ret, FALSE))))))

\* setKeyToNearestLeaf(node, index, stack): b.ret = the stack afterwards
setKeyToNearestLeaf(f, b, node, index, stack) ==
  Try(getChildNode(f, b, node, index), LAMBDA bl :
    Try(getChildNode(f, bl, node, index + 1), LAMBDA br :
      Try(leafSize(f, br, bl.ret, FALSE), LAMBDA ls :
        Try(leafSize(f, ls, br.ret, TRUE), LAMBDA rs :
          IF ls.ret < rs.ret
          THEN takeFirst(rs, node, index, stack, leafPath(rs, br.ret, TRUE))
          ELSE takeLast(rs, node, index, stack, leafPath(rs, bl.ret, FALSE))))))

\* lines 637-643: node borrows from its left sibling through key index - 1 of
\* parent
borrowLeft(b, node, parent, left, index, root) ==
  LET lk == b.nodes[left].keys
      lc == b.nodes[left].children
  IN [b EXCEPT
        !.nodes[left].changed = TRUE,
        !.nodes[node].keys = <<At(b.nodes[parent].keys, index - 1)>> \o @,
        !.nodes[node].children = IF lc = <<>> THEN @ ELSE <<lc[Len(lc)]>> \o @,
        !.nodes[left].children = IF lc = <<>> THEN @ ELSE SubSeq(lc, 1, Len(lc) - 1),
        !.nodes[parent].keys[index] = lk[Len(lk)],
        !.nodes[left].keys = SubSeq(lk, 1, Len(lk) - 1),
        !.ret = root]

\* lines 646-652: node borrows from its right sibling through key index of
\* parent
borrowRight(b, node, parent, right, index, root) ==
  LET rk == b.nodes[right].keys
      rc == b.nodes[right].children
  IN [b EXCEPT
        !.nodes[right].changed = TRUE,
        !.nodes[node].keys = Append(@, At(b.nodes[parent].keys, index)),
        !.nodes[node].children = IF rc = <<>> THEN @ ELSE Append(@, Head(rc)),
        !.nodes[right].children = IF rc = <<>> THEN @ ELSE Tail(rc),
        !.nodes[parent].keys[index + 1] = Head(rk),
        !.nodes[right].keys = Tail(rk),
        !.ret = root]

\* lines 655-663: r is merged into l with key ix of parent between them
mergeInto(b, parent, l, r, ix) ==
  removeKey(merge(b, l, r, At(b.nodes[parent].keys, ix)), parent, ix)

\* rebalance(stack): b.ret = the root afterwards
RECURSIVE rebalance(_, _, _, _)
rebalance(f, b, stack, root) ==
  IF Len(stack) <= 1
  THEN IF Len(b.nodes[root].keys) = 0 /\ Len(b.nodes[root].children) # 0
       THEN getChildNode(f, b, root, 0)
       ELSE Ret(b, root)
  ELSE LET node == stack[Len(stack)]
           rest == SubSeq(stack, 1, Len(stack) - 1)
           parent == stack[Len(stack) - 1]
       IN IF Len(b.nodes[node].keys) >= MIN_KEYS THEN Ret(b, root)
          ELSE Try(siblings(f, b, node, parent), LAMBDA b1 :
                 IF b1.ret.left # 0 /\ Len(b1.nodes[b1.ret.left].keys) > MIN_KEYS
                 THEN borrowLeft(b1, node, parent, b1.ret.left, b1.ret.index, root)
                 ELSE IF b1.ret.right # 0
                           /\ Len(b1.nodes[b1.ret.right].keys) > MIN_KEYS
                 THEN borrowRight(b1, node, parent, b1.ret.right, b1.ret.index, root)
                 ELSE IF b1.ret.left # 0
                 THEN rebalance(f, mergeInto(b1, parent, b1.ret.left, node,
                                             b1.ret.index - 1),
                                rest, root)
                 ELSE IF b1.ret.right = 0 THEN Throw(b1, "type")
                 ELSE rebalance(f, mergeInto(b1, parent, node, b1.ret.right,
                                             b1.ret.index),
                                rest, root))

\* line 516: every node of the stack st is marked changed
markChanged(b, st) ==
  [b EXCEPT !.nodes =
     Build(LAMBDA x : IF \E j \in DOMAIN st : st[j] = x
                      THEN [b.nodes[x] EXCEPT !.changed = TRUE]
                      ELSE b.nodes[x],
           1, Len(b.nodes))]

\* lines 501-528: b.out and b.length tell whether a block was produced
RECURSIVE delDescend(_, _, _, _, _, _, _)
delDescend(f, b, root, node, key, seq, stack0) ==
  Try(search(f, b, node, key, 0, Len(b.nodes[node].keys)), LAMBDA b1 :
    IF b1.ret.found
    THEN Try(IF Len(b1.nodes[node].children) # 0
             THEN setKeyToNearestLeaf(f, b1, node, b1.ret.i, Append(stack0, node))
             ELSE Ret(removeKey(b1, node, b1.ret.i), Append(stack0, node)),
             LAMBDA b2 :
               Try(rebalance(f, markChanged(b2, b2.ret), b2.ret, root), LAMBDA b4 :
                 _append(b4, b4.ret, seq, key, 0)))
    ELSE IF Len(b1.nodes[node].children) = 0 THEN Ret(b1, 0)
    ELSE Try(getChildNode(f, b1, node, b1.ret.i), LAMBDA b2 :
           delDescend(f, b2, root, b2.ret, key, seq, Append(stack0, node))))

\* del that appends a block also when the key is not found
delAppendOnMiss(f, b, key) ==
  Try(getRoot(f, b), LAMBDA b1 :
    IF b1.ret = 0 THEN b1
    ELSE Try(delDescend(f, b1, b1.ret, b1.ret, key, nextSeq(f, b), <<>>),
             LAMBDA b2 :
               IF b2.length # b.length \/ b2.out # <<>> THEN b2
               ELSE _append(b2, b1.ret, nextSeq(f, b), key, 0)))

\* Batch.del(key)
del(f, b, key) ==
  Try(getRoot(f, b), LAMBDA b1 :
    IF b1.ret = 0 THEN b1
    ELSE delDescend(f, b1, b1.ret, b1.ret, key, nextSeq(f, b), <<>>))

(* ------------------------------------------------------------------ *)
(* Batch.flush                                                          *)
(* ------------------------------------------------------------------ *)
\* lines 541-552 on pendingIndex b.idx, from position j
RECURSIVE compact(_, _, _)
compact(b, j, seq) ==
  IF j >= Len(b.idx) THEN b
  ELSE IF At(b.idx, j) # 0 /\ b.childs[At(b.idx, j)].seq = seq
  THEN compact([b EXCEPT !.childs[At(b.idx, j)].offset = j], j + 1, seq)
  ELSE IF j = Len(b.idx) - 1
  THEN compact([b EXCEPT !.idx = SubSeq(@, 1, Len(@) - 1)], j, seq)
  ELSE compact(
         [b EXCEPT !.idx = [SubSeq(@, 1, Len(@) - 1) EXCEPT ![j + 1] = b.idx[Len(b.idx)]]],
         j, seq)

\* an encoding that hands on only the block encoded last
flushEncodeOnlyLast(b, seq) ==
  [b EXCEPT !.pend[seq].pendingIndex = b.idx,
            !.out = <<encode(b, b.pend[seq].key, b.pend[seq].value, b.idx)>>]

\* lines 555-559: the block of the staged entry seq, its index being b.idx
flushEncode(b, seq) ==
  [b EXCEPT !.pend[seq].pendingIndex = b.idx,
            !.out = Append(@, encode(b, b.pend[seq].key, b.pend[seq].value, b.idx))]

\* lines 536-560: the blocks encoded so far are b.out
RECURSIVE flushLoop(_, _, _)
flushLoop(f, b, i) ==
  IF i >= b.length THEN b
  ELSE IF (Len(f) + i) \notin DOMAIN b.pend THEN Throw(b, "type")
  ELSE flushLoop(f,
         flushEncode(
           IF i < b.length - 1
           THEN compact([b EXCEPT !.idx = [b.pend[Len(f) + i].pendingIndex
                                             EXCEPT ![1] = 0]],
                        0, Len(f) + i)
           ELSE [b EXCEPT !.idx = b.pend[Len(f) + i].pendingIndex],
           Len(f) + i),
         i + 1)

\* lines 562-564: the batch is emptied before the blocks are appended
flushed(b) ==
  [b EXCEPT !.root = 0, !.length = 0, !.pend = <<>>, !.cached = {},
            !.ptr = <<>>, !.nodes = <<>>, !.childs = <<>>, !.idx = <<>>]

\* Batch.flush() up to its call of _appendBatch(b.out); b.out = <<>> when it
\* resolves without appending
flush(f, b) ==
  IF b.length = 0 THEN [b EXCEPT !.out = <<>>]
  ELSE Let(flushLoop(f, [b EXCEPT !.out = <<>>], 0), LAMBDA b1 :
         IF Ok(b1) THEN flushed(b1) ELSE [b1 EXCEPT !.out = <<>>])

(* ------------------------------------------------------------------ *)
(* HyperBee: ready, version, get / put / del on the handle              *)
(* ------------------------------------------------------------------ *)
\* HyperBee._open on a writable feed: the header is appended to an empty log
ready(f) == IF Len(f) > 0 THEN f ELSE <<Header>>

\* HyperBee.version of a handle with the given _checkout
version(f, checkout) ==
  LET len == IF checkout # 0 THEN checkout ELSE Len(f)
  IN IF len > 1 THEN len ELSE 1

\* what a caller sees of a call: the value it resolves to, or the rejection
ErrEntry == [seq |-> 0 - 1, key |-> 0 - 1, value |-> 0 - 1]

Result(b) == IF Ok(b) THEN b.ret ELSE ErrEntry

\* HyperBee.get(key) on the handle HyperBee.checkout(v) (v = 0: the handle itself)
hget(f, v, key) == Result(get(ready(f), Batch(FALSE, v, 0), key))

\* HyperBee.put(key, value): the batch after the call, b.out the block appended
hput(f, key, value) == put(ready(f), Batch(TRUE, 0, 0), key, value)

\* HyperBee.del(key)
hdel(f, key) == del(ready(f), Batch(TRUE, 0, 0), key)

\* a batch object between two calls: the call's scratch values dropped
Call(b, failAt) ==
  [b EXCEPT !.nf = 0, !.failAt = failAt, !.err = "ok", !.ret = 0,
            !.idx = <<>>, !.out = <<>>]

(* ------------------------------------------------------------------ *)
(* Bounds of the workload                                              *)
(* ------------------------------------------------------------------ *)
\* the log is first filled with up to MaxLoad puts of ascending keys
MaxLoad == 9
\* and then up to MaxOps operations with any key and value follow
MaxOps == 2
MaxVal == 2
\* a longer load of up to MaxDeep puts, for trees of three levels, is followed
\* by up to MaxDeepOps operations
MaxDeep == 50
MaxDeepOps == 2
\* the first of them on any key, the later ones on every DeepStride-th key
DeepStride == 6

LoadKey(i) == i + 1
Keys == 1..(MaxLoad + 2)
Vals == 1..MaxVal
DeepKeys == 1..(MaxDeep + 2)
DeepKeysAt(n) == IF n = 0 THEN DeepKeys ELSE {k \in DeepKeys : k % DeepStride = 1}

(* ------------------------------------------------------------------ *)
(* State                                                               *)
(* ------------------------------------------------------------------ *)
VARIABLES
  feed,    \* the log
  bat,     \* an explicit batch of the handle (HyperBee.batch())
  batB,    \* a second explicit batch of the same handle
  two,     \* history: what the two batches staged before the first flush
  race,    \* two puts of the handle in flight, and the appends they have queued
  rd,      \* a HyperBee.get in progress, one getKey at a time
  hist,    \* history: hist[v][k] = the put live for k after v blocks
  staged,  \* history: the operations staged in bat, with the puts live after each
  ind,     \* history: the log had every flushed operation been one of the handle
  last,    \* history: the operation that was run last
  nops     \* operations run after the load

vars == <<feed, bat, batB, two, race, rd, hist, staged, ind, last, nops>>

Absent == [seq |-> 0, value |-> 0]

NoKeys == Build(LAMBDA k : Absent, 1, MaxDeep + 2)

\* the entry get(k) is expected to return when o is live
Expect(o, k) ==
  IF o[k].seq = 0 THEN NullEntry
  ELSE [seq |-> o[k].seq, key |-> k, value |-> o[k].value]

Cur == hist[Len(hist)]

CurB == IF staged = <<>> THEN Cur ELSE staged[Len(staged)].live

Staged(op, key, value, live) ==
  [op |-> op, key |-> key, value |-> value, live |-> live]

\* the operations ops run one after the other as put/del of the handle
RECURSIVE ApplyOps(_, _)
ApplyOps(f, ops) ==
  IF ops = <<>> THEN f
  ELSE LET o == Head(ops)
           b == IF o.op = "put" THEN hput(f, o.key, o.value) ELSE hdel(f, o.key)
       IN ApplyOps(ready(f) \o b.out, Tail(ops))

\* op on key ended with err; before it the log held len0 blocks, n operations
\* were staged, and the key was present or not
Op(op, key, err, len0, n, present) ==
  [op |-> op, key |-> key, err |-> err, len0 |-> len0, n |-> n,
   present |-> present]

\* no get is in progress
RdIdle ==
  [pc |-> "idle", key |-> 0, len |-> 0, b |-> Batch(FALSE, 0, 0), node |-> 0,
   s |-> 0, e |-> 0, i |-> 0, seq |-> 0, grew |-> FALSE, result |-> NullEntry]

NoTwo == [a |-> {}, b |-> {}, len0 |-> 0, n |-> 0]

\* no put is in flight
NoRace ==
  [pc |-> <<"new", "new">>, key |-> <<0, 0>>, len |-> <<0, 0>>, at |-> <<0, 0>>,
   seq |-> <<0, 0>>, queue |-> <<>>, order |-> <<>>]

Init ==
  /\ feed = <<>>
  /\ bat = Batch(FALSE, 0, 0)
  /\ batB = Batch(FALSE, 0, 0)
  /\ two = NoTwo
  /\ race = NoRace
  /\ rd = RdIdle
  /\ hist = <<NoKeys>>
  /\ staged = <<>>
  /\ ind = <<>>
  /\ last = Op("init", 0, "ok", 0, 0, FALSE)
  /\ nops = 0

Loading ==
  nops = 0 /\ Len(feed) <= MaxLoad /\ bat.length = 0 /\ batB.length = 0

Free == nops < MaxOps

(* ------------------------------------------------------------------ *)
(* Operations of the handle                                            *)
(* ------------------------------------------------------------------ *)
\* await db.ready()
Ready ==
  /\ feed = <<>>
  /\ feed' = ready(feed)
  /\ ind' = ready(ind)
  /\ last' = Op("ready", 0, "ok", 0, 0, FALSE)
  /\ UNCHANGED <<bat, batB, two, race, rd, hist, staged, nops>>

\* await db.put(k, v)
DoPut(k, v) ==
  LET b == hput(feed, k, v)
  IN /\ Ok(b)
     /\ feed' = ready(feed) \o b.out
     /\ ind' = ApplyOps(ind, <<Staged("put", k, v, Cur)>>)
     /\ hist' = Append(hist, [Cur EXCEPT ![k] =
                                [seq |-> Len(ready(feed)), value |-> v]])
     /\ last' = Op("put", k, "ok", Len(feed), 0, Cur[k].seq # 0)
     /\ UNCHANGED <<bat, batB, two, race, rd, staged>>

Load ==
  /\ Loading
  /\ DoPut(LoadKey(Len(ready(feed))), 1)
  /\ UNCHANGED nops

HandlePut ==
  /\ Free /\ bat.length = 0
  /\ \E k \in Keys, v \in Vals : DoPut(k, v)
  /\ nops' = nops + 1

\* await db.del(k)
DoDel(k) ==
  LET b == hdel(feed, k)
  IN /\ Ok(b)
     /\ feed' = ready(feed) \o b.out
     /\ ind' = ApplyOps(ind, <<Staged("del", k, 0, Cur)>>)
     /\ hist' = IF Cur[k].seq # 0
                THEN Append(hist, [Cur EXCEPT ![k] = Absent]) ELSE hist
     /\ last' = Op("del", k, "ok", Len(feed), 0, Cur[k].seq # 0)
     /\ UNCHANGED <<bat, batB, two, race, rd, staged>>

HandleDel ==
  /\ Free /\ bat.length = 0
  /\ \E k \in Keys : DoDel(k)
  /\ nops' = nops + 1

(* ------------------------------------------------------------------ *)
(* Operations of the explicit batch                                    *)
(* ------------------------------------------------------------------ *)
\* await batch.put(k, v)
StagePut(k, v) ==
  LET f == ready(feed)
      b == put(f, Call(bat, 0), k, v)
  IN /\ Ok(b)
     /\ bat' = Call(b, 0)
     /\ feed' = f \o b.out
     /\ staged' = Append(staged, Staged("put", k, v, [CurB EXCEPT ![k] =
                     [seq |-> Len(f) + Len(staged), value |-> v]]))
     /\ last' = Op("bput", k, "ok", Len(feed), Len(staged), CurB[k].seq # 0)
     /\ UNCHANGED <<batB, rd, hist, ind>>

BatchPut ==
  /\ Free
  /\ \E k \in Keys, v \in Vals : StagePut(k, v)
  /\ nops' = nops + 1
  /\ UNCHANGED <<two, race>>

\* await batch.del(k)
StageDel(k) ==
  LET f == ready(feed)
      b == del(f, Call(bat, 0), k)
  IN /\ Ok(b)
     /\ bat' = Call(b, 0)
     /\ feed' = f \o b.out
     /\ staged' = IF CurB[k].seq # 0
                  THEN Append(staged, Staged("del", k, 0, [CurB EXCEPT ![k] = Absent]))
                  ELSE staged
     /\ last' = Op("bdel", k, "ok", Len(feed), Len(staged), CurB[k].seq # 0)
     /\ UNCHANGED <<batB, rd, hist, ind>>

BatchDel ==
  /\ Free
  /\ \E k \in Keys : StageDel(k)
  /\ nops' = nops + 1
  /\ UNCHANGED <<two, race>>

\* await batch.flush(), the feed accepting the append
DoFlush ==
  /\ bat.length > 0
  /\ LET b == flush(feed, Call(bat, 0))
     IN /\ Ok(b)
        /\ bat' = Call(b, 0)
        /\ feed' = feed \o b.out
        /\ hist' = hist \o Build(LAMBDA i : staged[i].live, 1, Len(staged))
        /\ ind' = ApplyOps(ind, staged)
        /\ staged' = <<>>
        /\ last' = Op("flush", 0, "ok", Len(feed), Len(staged), FALSE)
  /\ UNCHANGED <<batB, rd, nops>>

Flush == DoFlush /\ UNCHANGED <<two, race>>

\* await batch.flush(), feed.append calling back with an error: the staged
\* operations are gone from the batch, so the history drops them too
FlushFail ==
  /\ bat.length > 0
  /\ LET b == flush(feed, Call(bat, 0))
     IN /\ Ok(b)
        /\ bat' = Call(b, 0)
        /\ last' = Op("flush", 0, "append", Len(feed), Len(staged), FALSE)
  /\ staged' = <<>>
  /\ UNCHANGED <<feed, batB, two, race, rd, hist, ind, nops>>

NextHandle == Ready \/ Load \/ HandlePut \/ HandleDel

SpecHandle == Init /\ [][NextHandle]_vars

Next == Ready \/ Load \/ HandlePut \/ HandleDel
          \/ BatchPut \/ BatchDel \/ Flush \/ FlushFail

Spec == Init /\ [][Next]_vars

(* ------------------------------------------------------------------ *)
(* put and del of the handle on trees of up to three levels             *)
(* ------------------------------------------------------------------ *)
LoadDeep ==
  /\ nops = 0 /\ Len(feed) <= MaxDeep
  /\ DoPut(LoadKey(Len(ready(feed))), 1)
  /\ UNCHANGED nops

DeepPut ==
  /\ nops < MaxDeepOps
  /\ \E k \in DeepKeysAt(nops) : DoPut(k, MaxVal)
  /\ nops' = nops + 1

DeepDel ==
  /\ nops < MaxDeepOps
  /\ \E k \in DeepKeysAt(nops) : DoDel(k)
  /\ nops' = nops + 1

NextDeep == Ready \/ LoadDeep \/ DeepPut \/ DeepDel

SpecDeep == Init /\ [][NextDeep]_vars

(* ------------------------------------------------------------------ *)
(* One explicit batch of up to MaxBatch operations                     *)
(* ------------------------------------------------------------------ *)
MaxBatch == 3

LongPut ==
  /\ nops < MaxBatch
  /\ \E k \in Keys : StagePut(k, 1)
  /\ nops' = nops + 1
  /\ UNCHANGED <<two, race>>

LongDel ==
  /\ nops < MaxBatch
  /\ \E k \in Keys : StageDel(k)
  /\ nops' = nops + 1
  /\ UNCHANGED <<two, race>>

NextBatch == Ready \/ Load \/ LongPut \/ LongDel \/ Flush

SpecBatch == Init /\ [][NextBatch]_vars

(* ------------------------------------------------------------------ *)
(* Two explicit batches of one handle                                  *)
(* ------------------------------------------------------------------ *)
\* each batch stages up to MaxStage puts on the keys TwoKeys: one key that is
\* never loaded and the key that is loaded first
MaxStage == 2
TwoKeys == {1, LoadKey(1)}

\* await a.put(k, "1") before either batch is flushed
StageA ==
  /\ two.n = 0 /\ bat.length < MaxStage
  /\ \E k \in TwoKeys : StagePut(k, 1) /\ two' = [two EXCEPT !.a = @ \cup {k}]
  /\ UNCHANGED <<nops, race>>

\* await b.put(k, "2") before either batch is flushed
StageB ==
  /\ two.n = 0 /\ batB.length < MaxStage
  /\ \E k \in TwoKeys :
       LET f == ready(feed)
           b == put(f, Call(batB, 0), k, MaxVal)
       IN /\ Ok(b)
          /\ batB' = Call(b, 0)
          /\ feed' = f \o b.out
          /\ two' = [two EXCEPT !.b = @ \cup {k}]
          /\ last' = Op("bputB", k, "ok", Len(feed), batB.length, FALSE)
  /\ UNCHANGED <<bat, race, rd, hist, staged, ind, nops>>

\* await a.flush(), both batches holding staged puts
FlushA ==
  /\ two.n = 0 /\ batB.length > 0
  /\ DoFlush
  /\ two' = [two EXCEPT !.len0 = Len(feed), !.n = bat.length + batB.length]
  /\ UNCHANGED race

\* the puts live after each of the blocks a flush of b appends to f
RECURSIVE PendLives(_, _, _, _)
PendLives(o, f, b, i) ==
  IF i >= b.length \/ (Len(f) + i) \notin DOMAIN b.pend THEN <<>>
  ELSE LET e == b.pend[Len(f) + i]
           o1 == [o EXCEPT ![e.key] = [seq |-> Len(f) + i, value |-> e.value]]
       IN <<o1>> \o PendLives(o1, f, b, i + 1)

\* b.flush() after a.flush() has resolved: it appends, or it throws
FlushB ==
  /\ two.n > 0 /\ batB.length > 0
  /\ LET b == flush(feed, Call(batB, 0))
     IN /\ batB' = Call(b, 0)
        /\ feed' = IF Ok(b) THEN feed \o b.out ELSE feed
        /\ hist' = IF Ok(b) THEN hist \o PendLives(Cur, feed, batB, 0) ELSE hist
        /\ last' = Op("flushB", 0, b.err, Len(feed), batB.length, FALSE)
  /\ UNCHANGED <<bat, two, race, rd, staged, ind, nops>>

NextTwo == Ready \/ Load \/ StageA \/ StageB \/ FlushA \/ FlushB

SpecTwo == Init /\ [][NextTwo]_vars

(* ------------------------------------------------------------------ *)
(* A put or del of the batch whose n-th feed.get fails                  *)
(* ------------------------------------------------------------------ *)
MaxFetch == 6

\* await batch.put(k, v) rejects: the batch is what the call left behind
FailPut ==
  /\ Free
  /\ \E k \in Keys, v \in Vals, n \in 1..MaxFetch :
       LET f == ready(feed)
           b == put(f, Call(bat, n), k, v)
       IN /\ b.err = "fetch"
          /\ bat' = Call(b, 0)
          /\ feed' = f \o b.out
          /\ last' = Op("bput", k, "fetch", Len(feed), Len(staged), CurB[k].seq # 0)
  /\ nops' = nops + 1
  /\ UNCHANGED <<batB, two, race, rd, hist, staged, ind>>

\* await batch.del(k) rejects
FailDel ==
  /\ Free
  /\ \E k \in Keys, n \in 1..MaxFetch :
       LET f == ready(feed)
           b == del(f, Call(bat, n), k)
       IN /\ b.err = "fetch"
          /\ bat' = Call(b, 0)
          /\ feed' = f \o b.out
          /\ last' = Op("bdel", k, "fetch", Len(feed), Len(staged), CurB[k].seq # 0)
  /\ nops' = nops + 1
  /\ UNCHANGED <<batB, two, race, rd, hist, staged, ind>>

NextFail == Ready \/ Load \/ BatchPut \/ BatchDel \/ FailPut \/ FailDel

SpecFail == Init /\ [][NextFail]_vars

(* ------------------------------------------------------------------ *)
(* HyperBee.get(key), one awaited fetch at a time, while the log grows  *)
(* ------------------------------------------------------------------ *)
RdDone(r, entry) == [r EXCEPT !.pc = "done", !.result = entry]

\* from the head of the inner loop of get to its next await
RdLoop(r) ==
  IF r.s < r.e THEN [r EXCEPT !.pc = "key"]
  ELSE IF Len(r.b.nodes[r.node].children) = 0 THEN RdDone(r, NullEntry)
  ELSE [r EXCEPT !.pc = "child", !.i = r.s]

RdEnter(r, b) ==
  RdLoop([r EXCEPT !.b = b, !.node = b.ret, !.s = 0,
                   !.e = Len(b.nodes[b.ret].keys)])

RdGrew(r) == [r EXCEPT !.grew = @ \/ Len(feed) > r.len]

\* db.get(k) up to the root: await this.getRoot()
GetStart ==
  /\ rd.pc = "idle" /\ feed # <<>>
  /\ \E k \in Keys :
       LET b == getRoot(feed, Batch(FALSE, 0, 0))
           r == [RdIdle EXCEPT !.key = k, !.len = Len(feed), !.b = b]
       IN /\ Ok(b)
          /\ rd' = IF b.ret = 0 THEN RdDone(r, NullEntry) ELSE RdEnter(r, b)
  /\ UNCHANGED <<feed, bat, batB, two, race, hist, staged, ind, last, nops>>

\* await node.getKey(mid) and the comparison
GetKeyStep ==
  /\ rd.pc = "key"
  /\ LET mid == (rd.s + rd.e) \div 2
         b == getKey(feed, rd.b, rd.node, mid)
         c == cmp(rd.key, b.ret)
         r == RdGrew([rd EXCEPT !.b = b])
     IN /\ Ok(b)
        /\ rd' = IF c = 0
                  THEN [r EXCEPT !.pc = "final",
                                 !.seq = At(b.nodes[rd.node].keys, mid).seq]
                  ELSE IF c < 0 THEN RdLoop([r EXCEPT !.e = mid])
                  ELSE RdLoop([r EXCEPT !.s = mid + 1])
  /\ UNCHANGED <<feed, bat, batB, two, race, hist, staged, ind, last, nops>>

\* await node.getChildNode(i)
GetChildStep ==
  /\ rd.pc = "child"
  /\ LET b == getChildNode(feed, rd.b, rd.node, rd.i)
     IN /\ Ok(b)
        /\ rd' = RdEnter(RdGrew(rd), b)
  /\ UNCHANGED <<feed, bat, batB, two, race, hist, staged, ind, last, nops>>

\* (await this.getBlock(seq)).final()
GetFinalStep ==
  /\ rd.pc = "final"
  /\ LET b == getBlock(feed, rd.b, rd.seq)
     IN /\ Ok(b)
        /\ rd' = RdDone(RdGrew([rd EXCEPT !.b = b]), final(feed, b, rd.seq))
  /\ UNCHANGED <<feed, bat, batB, two, race, hist, staged, ind, last, nops>>

\* writes on the key being read, while the get is under way
Reading == rd.pc \notin {"idle", "done"}

PutRead ==
  /\ Reading /\ Free /\ bat.length = 0
  /\ \E v \in Vals : DoPut(rd.key, v)
  /\ nops' = nops + 1

DelRead ==
  /\ Reading /\ Free /\ bat.length = 0
  /\ DoDel(rd.key)
  /\ nops' = nops + 1

StageRead ==
  /\ Reading /\ Free
  /\ \E v \in Vals : StagePut(rd.key, v)
  /\ nops' = nops + 1
  /\ UNCHANGED <<two, race>>

NextRead == Ready \/ Load \/ GetStart \/ GetKeyStep \/ GetChildStep
              \/ GetFinalStep \/ PutRead \/ DelRead \/ StageRead \/ Flush

SpecRead == Init /\ [][NextRead]_vars

(* ------------------------------------------------------------------ *)
(* Two puts of the handle, the second started while the first is in    *)
(* flight.  Each put is a Batch of its own (HyperBee.put); it suspends *)
(* in getRoot and in feed.append, and the awaits in between read       *)
(* blocks below the length getRoot has read, which never change.       *)
(* ------------------------------------------------------------------ *)
RaceBatch(p) == IF p = 1 THEN bat ELSE batB

RaceVal(p) == IF p = 1 THEN 1 ELSE MaxVal

\* a seq that counts the appends that are queued
seqReadQueued(f, b, queue) == nextSeq(f, b) + Len(queue)

\* line 442 while appends are queued: feed.length does not count a block
\* before feed.append has called back
seqRead(f, b, queue) == nextSeq(f, b)

\* db.put(k, v) up to the root: getRoot reads the length and fetches the block
RaceRoot(p, k) ==
  /\ feed # <<>>
  /\ race.pc[p] = "new"
  /\ p = 2 => race.pc[1] # "new" /\ k # race.key[1]
  /\ LET b == getRoot(feed, Batch(TRUE, 0, 0))
         b2 == IF b.ret = 0 THEN create(b, 0) ELSE b
     IN /\ Ok(b)
        /\ bat' = IF p = 1 THEN b2 ELSE bat
        /\ batB' = IF p = 2 THEN b2 ELSE batB
  /\ race' = [race EXCEPT !.pc[p] = "root", !.key[p] = k, !.len[p] = Len(feed)]
  /\ nops' = nops + 1
  /\ UNCHANGED <<feed, two, rd, hist, staged, ind, last>>

\* the put from the root on: it reads the seq, runs down the tree and hands
\* the encoded block to feed.append
RaceRun(p) ==
  /\ race.pc[p] = "root"
  /\ LET b0 == RaceBatch(p)
         seq == seqRead(feed, b0, race.queue)
         b == putAt(feed, b0, b0.ret, seq, race.key[p], RaceVal(p))
     IN /\ Ok(b)
        /\ bat' = IF p = 1 THEN b ELSE bat
        /\ batB' = IF p = 2 THEN b ELSE batB
        /\ race' = [race EXCEPT !.pc[p] = "queued", !.at[p] = Len(feed),
                                !.seq[p] = seq, !.queue = Append(@, p)]
  /\ UNCHANGED <<feed, two, rd, hist, staged, ind, last, nops>>

\* feed.append writes the block that was queued first and calls back
RaceAppend ==
  /\ race.queue # <<>>
  /\ feed' = feed \o RaceBatch(Head(race.queue)).out
  /\ race' = [race EXCEPT !.pc[Head(race.queue)] = "done", !.queue = Tail(@),
                          !.order = Append(@, Head(race.queue))]
  /\ UNCHANGED <<bat, batB, two, rd, hist, staged, ind, last, nops>>

NextRace ==
  \/ Ready
  \/ Load
  \/ \E p \in 1..2, k \in Keys : RaceRoot(p, k)
  \/ \E p \in 1..2 : RaceRun(p)
  \/ RaceAppend

SpecRace == Init /\ [][NextRace]_vars

(* ------------------------------------------------------------------ *)
(* Claims                                                              *)
(* ------------------------------------------------------------------ *)
\* C1: after any sequence of awaited put/del of the handle, get(k) returns for
\* every key the value of the most recent put with the seq of its block, and
\* null when the key was never put or was deleted last.
C1_GetReturnsLastPut == \A k \in Keys : hget(feed, 0, k) = Expect(Cur, k)

\* a delete has just removed a key of a two-level tree in which another key
\* was put a second time
C1_Witness ==
  /\ last.op = "del" /\ last.present
  /\ hget(feed, 0, last.key) = NullEntry
  /\ Len(feed[Len(feed)].index) > 1
  /\ \E k \in Keys : Cur[k].seq > MaxLoad /\ hget(feed, 0, k).seq = Cur[k].seq

\* C2: for every version v and key k, checkout(v).get(k) returns the value
\* live for k after the first v blocks, also when block v - 1 is a non-final
\* block of a batch flush.
C2_HistoricalConsistency ==
  \A v \in 1..Len(feed) : \A k \in Keys : hget(feed, v, k) = Expect(hist[v], k)

\* what a get(k) of the batch resolves to
bget(f, b, key) == Result(get(ready(f), Call(b, 0), key))

\* C3: N staged operations that each change the tree are flushed as exactly N
\* blocks, and afterwards get(k) returns for every key the same key and value
\* as after the same operations run one by one as put/del of the handle.
C3_BatchEquivalence ==
  (last.op = "flush" /\ last.err = "ok") =>
     /\ Len(feed) = last.len0 + last.n
     /\ bat.length = 0
     /\ \A k \in Keys : /\ hget(feed, 0, k).key = hget(ind, 0, k).key
                        /\ hget(feed, 0, k).value = hget(ind, 0, k).value

\* two or more operations were flushed into a two-level tree, and the log
\* differs from the one the handle's own put/del would have written
C3_Witness ==
  /\ last.op = "flush" /\ last.err = "ok" /\ last.n >= 2
  /\ Len(feed[Len(feed)].index) > 1
  /\ feed # ind
  /\ \E k \in Keys : hget(feed, 0, k).seq >= last.len0

\* C4: while operations are staged and not flushed, the log and every get of
\* the handle are as before the batch, and get of the batch returns the staged
\* result; after flush the batch has nothing pending and get of the handle
\* returns the staged results.
C4_StagedIsolation ==
  /\ staged # <<>> =>
        /\ Len(feed) = Len(hist)
        /\ \A k \in Keys : /\ hget(feed, 0, k) = Expect(Cur, k)
                           /\ bget(feed, bat, k) = Expect(CurB, k)
  /\ (last.op = "flush" /\ last.err = "ok") =>
        /\ bat.length = 0
        /\ \A k \in Keys : hget(feed, 0, k) = Expect(Cur, k)

\* a put and a delete are staged: the batch sees both, the handle neither
C4_Witness ==
  /\ Len(staged) >= 2
  /\ \E k \in Keys : bget(feed, bat, k) # NullEntry /\ hget(feed, 0, k) = NullEntry
  /\ \E k \in Keys : bget(feed, bat, k) = NullEntry /\ hget(feed, 0, k) # NullEntry

\* C5: two batches of one handle stage their puts before either is flushed;
\* a.flush() and then b.flush() both succeed, the log has grown by the number
\* of puts staged in the two batches, and get of a key both have put returns
\* the value b has put.
C5_TwoBatchesFlushInTurn ==
  last.op = "flushB" =>
     /\ last.err = "ok"
     /\ Len(feed) = two.len0 + two.n
     /\ \A k \in two.a \cap two.b : hget(feed, 0, k).value = MaxVal

\* C6: when the append of flush() fails, the batch still holds its staged
\* operations (pending count, staged entries, root), so flush() can be retried.
C6_FlushRetryable ==
  (last.op = "flush" /\ last.err = "append") =>
     /\ bat.length = last.n
     /\ bat.root # 0
     /\ Cardinality(DOMAIN bat.pend) = last.n

\* C7: when a fetch fails during a put or del of the batch, the call rejects,
\* the log and the pending count are as before, and every get of the batch
\* returns what it returned before the call.
C7_FetchFailureLeavesBatch ==
  last.err = "fetch" =>
     /\ Len(feed) = Len(hist)
     /\ bat.length = Len(staged)
     /\ \A k \in Keys : bget(feed, bat, k) = Expect(CurB, k)

\* C8: del of a key that is not in the tree appends no block, leaves the
\* version and the pending count as they are, marks no node changed and
\* changes no get result.
C8_DelMissIsNoop ==
  [][(last'.op \in {"del", "bdel"} /\ ~last'.present) =>
       /\ feed' = ready(feed)
       /\ version(feed', 0) = version(feed, 0)
       /\ bat'.length = bat.length
       /\ \A n \in DOMAIN bat'.nodes :
             bat'.nodes[n].changed => (n \in DOMAIN bat.nodes /\ bat.nodes[n].changed)
       /\ \A k \in Keys : /\ hget(feed', 0, k) = hget(feed, 0, k)
                          /\ bget(feed', bat', k) = bget(feed, bat, k)]_vars

\* a delete of an absent key has run on a batch that holds staged operations
\* on a two-level tree
C8_Witness ==
  /\ last.op = "bdel" /\ ~last.present
  /\ bat.length > 0
  /\ bat.root # 0 /\ Len(bat.nodes[bat.root].children) > 0

\* C9: a get that resolved its root when the log held rd.len blocks returns
\* the entry live for its key after those blocks, whatever was appended
\* between its fetches.
C9_GetSnapshot ==
  rd.pc = "done" =>
     /\ Ok(rd.b)
     /\ rd.result = Expect(hist[rd.len], rd.key)

\* a get on a two-level tree has ended after the log grew under it, and the
\* handle now returns another entry for its key
C9_Witness ==
  /\ rd.pc = "done" /\ rd.grew
  /\ Len(feed[rd.len].index) > 1
  /\ rd.result # NullEntry
  /\ hget(feed, 0, rd.key) # rd.result

\* the key seqs of every level of block seq
RefsOf(seq) ==
  UNION {{l.keys[j] : j \in 1..Len(l.keys)} :
           l \in {feed[seq + 1].index[i] : i \in 1..Len(feed[seq + 1].index)}}

\* C10: every put and every del of a present key contributes one block, the
\* seq stored in a new key reference is the position its block is appended
\* at, every key reference (loaded in the batch, or of a published index)
\* names a block that carries its key, the references of the newest index
\* are the live ones, and after ready() and one put the block is at seq 1,
\* version 2.
C10_KeySeqIsBlockPosition ==
  /\ Len(hist) = version(feed, 0)
  /\ bat.length = Len(staged)
  /\ DOMAIN bat.pend = {Len(feed) + i - 1 : i \in 1..Len(staged)}
  /\ \A i \in 1..Len(staged) :
        /\ bat.pend[Len(feed) + i - 1].key = staged[i].key
        /\ (staged[i].op = "put"
              /\ \A j \in (i + 1)..Len(staged) : staged[j].key # staged[i].key) =>
              bget(feed, bat, staged[i].key).seq = Len(feed) + i - 1
  /\ \A n \in DOMAIN bat.nodes : \A j \in DOMAIN bat.nodes[n].keys :
        bat.nodes[n].keys[j].value # 0 =>
           /\ bat.nodes[n].keys[j].seq \in DOMAIN bat.pend \cup (1..(Len(feed) - 1))
           /\ blockKey(feed, bat, bat.nodes[n].keys[j].seq) = bat.nodes[n].keys[j].value
  /\ \A s \in 1..(Len(feed) - 1) : \A i \in DOMAIN feed[s + 1].index :
        /\ \A j \in DOMAIN feed[s + 1].index[i].keys :
              feed[s + 1].index[i].keys[j] \in 1..(Len(feed) - 1)
        /\ \A j \in 1..(Len(feed[s + 1].index[i].keys) - 1) :
              feed[feed[s + 1].index[i].keys[j] + 1].key
                 < feed[feed[s + 1].index[i].keys[j + 1] + 1].key
  /\ Len(feed) > 1 => \A r \in RefsOf(Len(feed) - 1) :
        hist[Len(feed)][feed[r + 1].key] = [seq |-> r, value |-> feed[r + 1].value]
  /\ (Len(feed) = 2 /\ last.op = "put") =>
        /\ hget(feed, 0, last.key).seq = 1
        /\ version(feed, 0) = 2

\* several operations were flushed at once and the published root refers to
\* the key of a block of the flush that is not its last
C10_Witness ==
  /\ last.op = "flush" /\ last.err = "ok" /\ last.n >= 2
  /\ \E r \in RefsOf(Len(feed) - 1) : r >= last.len0 /\ r < Len(feed) - 1

\* what getRoot leaves to its caller: the rejection, the blocks fetched and
\* the root node
RootView(b) ==
  [err |-> b.err, cached |-> b.cached,
   node |-> IF Ok(b) /\ b.ret # 0 THEN b.nodes[b.ret] ELSE <<>>]

\* C11 as stated: for every v >= 0, checkout(v).version is max(1, v).
C11_PinsEveryVersion ==
  \A v \in 0..(Len(feed) + 1) : version(feed, v) = IF v > 1 THEN v ELSE 1

\* C11 (amended): for every v >= 1, checkout(v).version is max(1, v) and the
\* root checkout(v) uses is the one resolved at length v, the same as the
\* handle resolved when the log held v blocks, whatever was appended since;
\* a handle that is not checked out (also checkout(0)) has version
\* max(1, log length).
C11_CheckoutPinsVersion ==
  /\ version(feed, 0) = IF Len(feed) > 1 THEN Len(feed) ELSE 1
  /\ \A v \in 1..(Len(feed) + 1) :
        /\ version(feed, v) = IF v > 1 THEN v ELSE 1
        /\ getRoot(feed, Batch(FALSE, v, 0)).cached \subseteq {v - 1}
        /\ v > Len(feed) /\ v > 1 => getRoot(feed, Batch(FALSE, v, 0)).err = "fetch"
  /\ \A v \in 1..Len(feed) :
        RootView(getRoot(feed, Batch(FALSE, v, 0)))
           = RootView(getRoot(SubSeq(feed, 1, v), Batch(FALSE, 0, 0)))

\* a checkout whose root is not the root of the newest block
C11_Witness ==
  \E v \in 2..(Len(feed) - 1) :
     /\ Ok(getRoot(feed, Batch(FALSE, v, 0)))
     /\ RootView(getRoot(feed, Batch(FALSE, v, 0)))
           # RootView(getRoot(feed, Batch(FALSE, 0, 0)))
     /\ version(feed, v) # version(feed, 0)

(* ------------------------------------------------------------------ *)
(* The tree a block publishes, read from the log alone: node (seq,     *)
(* offset) is level offset of the index of block seq.                  *)
(* ------------------------------------------------------------------ *)
\* the walks below follow child references at most MaxDepth levels down
MaxDepth == 3

HasLevel(f, seq, offset) ==
  /\ seq \in 1..(Len(f) - 1)
  /\ offset \in 0..(Len(f[seq + 1].index) - 1)

LevelOf(f, seq, offset) == At(f[seq + 1].index, offset)

NumChildren(l) == Len(l.children) \div 2

\* child i of level l as the (seq, offset) it is stored as
ChildRef(l, i) == [seq |-> l.children[2 * i + 1], offset |-> l.children[2 * i + 2]]

\* the nodes of the subtree of (seq, offset), each with its depth
RECURSIVE NodesBelow(_, _, _, _)
NodesBelow(f, seq, offset, d) ==
  {[seq |-> seq, offset |-> offset, depth |-> d]} \cup
  IF ~HasLevel(f, seq, offset) \/ d >= MaxDepth THEN {}
  ELSE UNION {NodesBelow(f, ChildRef(LevelOf(f, seq, offset), i).seq,
                         ChildRef(LevelOf(f, seq, offset), i).offset, d + 1) :
                i \in 0..(NumChildren(LevelOf(f, seq, offset)) - 1)}

\* the nodes of the tree the newest block publishes.  Every block a put or
\* del of the handle appends, and the last block of every flush, is the
\* newest block in the state after its append.
TreeOf(f) == IF Len(f) < 2 THEN {} ELSE NodesBelow(f, Len(f) - 1, 0, 0)

\* the node counts of C12 but for the number of keys of the root
Occupancy(f, n) ==
  /\ HasLevel(f, n.seq, n.offset)
  /\ n.depth > 0 => Len(LevelOf(f, n.seq, n.offset).keys) \in MIN_KEYS..(2 * T - 1)
  /\ Len(LevelOf(f, n.seq, n.offset).keys) <= 2 * T - 1
  /\ Len(LevelOf(f, n.seq, n.offset).children) % 2 = 0
  /\ NumChildren(LevelOf(f, n.seq, n.offset)) # 0 =>
        /\ NumChildren(LevelOf(f, n.seq, n.offset))
              = Len(LevelOf(f, n.seq, n.offset).keys) + 1
        /\ n.depth < MaxDepth

RECURSIVE InOrder(_, _, _, _), InOrderFrom(_, _, _, _, _)
InOrder(f, seq, offset, d) ==
  IF ~HasLevel(f, seq, offset) \/ d > MaxDepth THEN <<0>>
  ELSE IF NumChildren(LevelOf(f, seq, offset)) = 0
  THEN LevelOf(f, seq, offset).keys
  ELSE InOrderFrom(f, seq, offset, d, 0)

InOrderFrom(f, seq, offset, d, i) ==
  IF i >= NumChildren(LevelOf(f, seq, offset)) THEN <<>>
  ELSE InOrder(f, ChildRef(LevelOf(f, seq, offset), i).seq,
               ChildRef(LevelOf(f, seq, offset), i).offset, d + 1)
       \o (IF i < Len(LevelOf(f, seq, offset).keys)
           THEN <<LevelOf(f, seq, offset).keys[i + 1]>> ELSE <<>>)
       \o InOrderFrom(f, seq, offset, d, i + 1)

\* the key references of the tree the newest block publishes, in order
RefsInOrder(f) == IF Len(f) < 2 THEN <<>> ELSE InOrder(f, Len(f) - 1, 0, 0)

\* the key a reference stands for: the key of the block it names
KeyOfRef(f, r) == IF r \in 1..(Len(f) - 1) THEN f[r + 1].key ELSE 0

\* C13: in the tree published by the newest block the in-order traversal
\* (each node's keys in their order, the subtree children[i] between
\* keys[i-1] and keys[i]) is strictly ascending and yields exactly the live
\* keys, each once, by the reference of its last put.
C13_KeysInOrder ==
  LET refs == RefsInOrder(feed)
      live == Cur
  IN /\ \A i \in 1..(Len(refs) - 1) :
           KeyOfRef(feed, refs[i]) < KeyOfRef(feed, refs[i + 1])
     /\ \A i \in 1..Len(refs) :
           /\ KeyOfRef(feed, refs[i]) # 0
           /\ live[KeyOfRef(feed, refs[i])].seq = refs[i]
     /\ {live[k].seq : k \in DOMAIN live} \ {0} = {refs[i] : i \in 1..Len(refs)}

\* a delete has hit a key of an inner node of a tree of three levels
C13_Witness ==
  /\ last.op = "del" /\ last.present
  /\ \E n \in NodesBelow(feed, last.len0 - 1, 0, 0) :
        /\ n.depth = 1
        /\ NumChildren(LevelOf(feed, n.seq, n.offset)) > 0
        /\ \E j \in 1..Len(LevelOf(feed, n.seq, n.offset).keys) :
              KeyOfRef(feed, LevelOf(feed, n.seq, n.offset).keys[j]) = last.key

\* every reference of the index of block s points backward
Backward(f, s) ==
  \A i \in 1..Len(f[s + 1].index) :
     /\ \A j \in 1..Len(f[s + 1].index[i].keys) : f[s + 1].index[i].keys[j] <= s
     /\ \A j \in 0..(NumChildren(f[s + 1].index[i]) - 1) :
           /\ ChildRef(f[s + 1].index[i], j).seq <= s
           /\ HasLevel(f, ChildRef(f[s + 1].index[i], j).seq,
                       ChildRef(f[s + 1].index[i], j).offset)

\* C14: every block of the log, appended by a put or del of the handle or as
\* any block of a batch flush, holds backward references only: a child
\* reference names a level of the block itself or of an earlier block, a key
\* reference a seq not greater than the block's own.
C14_BackwardReferences == \A s \in 1..(Len(feed) - 1) : Backward(feed, s)

\* level 0 of block s is the root of the tree with the keys live after s + 1
\* blocks
RootAtOffsetZero(f, s, live) ==
  LET refs == InOrder(f, s, 0, 0)
  IN /\ HasLevel(f, s, 0)
     /\ \A i \in 1..(Len(refs) - 1) : KeyOfRef(f, refs[i]) < KeyOfRef(f, refs[i + 1])
     /\ {live[k].seq : k \in DOMAIN live} \ {0} = {refs[i] : i \in 1..Len(refs)}

\* C15: in every tree block of the log, the non-final blocks of a batch flush
\* included, the level at offset 0 is the root of the tree as it stood after
\* the block's operation.
C15_RootAtOffsetZero ==
  \A s \in 1..(Len(feed) - 1) : RootAtOffsetZero(feed, s, hist[s + 1])

\* the nodes of the tree f publishes, and their subtrees as key references
\* in order
NodesOfTree(f) == {[seq |-> n.seq, offset |-> n.offset] : n \in TreeOf(f)}

SubtreesOf(f) == {InOrder(f, n.seq, n.offset, 0) : n \in NodesOfTree(f)}

\* block s of g, appended to the log f, is the changed spine only: no level
\* of it is a subtree f's tree holds already, and every child reference that
\* leaves the block is the (seq, offset) of a node of f's tree
SpineOnly(f, g, s) ==
  LET old == SubtreesOf(f)
      nodes == NodesOfTree(f)
  IN \A i \in 1..Len(g[s + 1].index) :
        /\ InOrder(g, s, i - 1, 0) \notin old
        /\ \A j \in 0..(NumChildren(g[s + 1].index[i]) - 1) :
              \/ ChildRef(g[s + 1].index[i], j).seq = s
              \/ ChildRef(g[s + 1].index[i], j) \in nodes

\* C16: the block a put or del of the handle appends holds levels only for
\* nodes the operation changed: none of its levels is a subtree of the
\* previous tree, every child reference to an unchanged subtree is the
\* (seq, offset) that subtree had in the previous tree, and the earlier
\* blocks are as they were.
C16_CopyOnWriteSpine ==
  [][(last'.op \in {"put", "del"} /\ Len(feed') > Len(ready(feed))) =>
       /\ Len(feed') = Len(ready(feed)) + 1
       /\ SubSeq(feed', 1, Len(ready(feed))) = ready(feed)
       /\ SpineOnly(ready(feed), feed', Len(feed') - 1)]_vars

\* a delete on a tree of three levels has appended a block that refers to
\* subtrees of earlier blocks
C16_Witness ==
  /\ last.op = "del" /\ last.present
  /\ \E n \in TreeOf(feed) : n.depth = 2 /\ n.seq < last.len0
  /\ \E n \in TreeOf(feed) : n.depth = 1 /\ n.seq < last.len0
  /\ Len(feed[Len(feed)].index) > 2

\* the leaf of the subtree of (seq, offset) that a put of key descends to,
\* key being none of the tree's keys
RECURSIVE LeafFor(_, _, _, _, _)
LeafFor(f, seq, offset, key, d) ==
  IF NumChildren(LevelOf(f, seq, offset)) = 0 \/ d >= MaxDepth
  THEN [seq |-> seq, offset |-> offset]
  ELSE LET l == LevelOf(f, seq, offset)
           i == Cardinality({j \in 1..Len(l.keys) : KeyOfRef(f, l.keys[j]) < key})
       IN LeafFor(f, ChildRef(l, i).seq, ChildRef(l, i).offset, key, d + 1)

\* the number of keys of the leaf a put of key goes to; 0 in an empty log
LeafKeysFor(f, key) ==
  IF Len(f) < 2 THEN 0
  ELSE Len(LevelOf(f, LeafFor(f, Len(f) - 1, 0, key, 0).seq,
                   LeafFor(f, Len(f) - 1, 0, key, 0).offset).keys)

\* the numbers of keys of the children of the root
LeafSizes(f) ==
  LET root == LevelOf(f, Len(f) - 1, 0)
  IN Build(LAMBDA i : Len(LevelOf(f, ChildRef(root, i - 1).seq,
                                  ChildRef(root, i - 1).offset).keys),
           1, NumChildren(root))

\* a put of a new key into a tree splits a node exactly when its leaf then
\* holds n keys, and n ascending keys put into an empty tree leave a root of 1 key over
\* leaves of the sizes given, fewer keys a single leaf
SplitsAt(n, sizes) ==
  /\ (last'.op = "put" /\ ~last'.present /\ Len(feed) > 1) =>
        (Cardinality(NodesOfTree(feed')) > Cardinality(NodesOfTree(ready(feed)))
           <=> LeafKeysFor(ready(feed), last'.key) + 1 = n)
  /\ (nops' = 0 /\ Len(feed') \in 2..n) =>
        /\ NumChildren(LevelOf(feed', Len(feed') - 1, 0)) = 0
        /\ Len(LevelOf(feed', Len(feed') - 1, 0).keys) = Len(feed') - 1
  /\ (nops' = 0 /\ Len(feed') = n + 1) =>
        /\ Len(LevelOf(feed', Len(feed') - 1, 0).keys) = 1
        /\ LeafSizes(feed') = sizes

\* C17 as stated: a node is split exactly when an insert brings it to
\* 2T = 10 keys, and ten ascending keys put into an empty tree leave a root
\* of 1 key over leaves of 5 and 4 keys.
C17_SplitAtTen == [][SplitsAt(2 * T, <<5, 4>>)]_vars

\* C17 (amended): a node is split exactly when an insert brings it to
\* MAX_CHILDREN = 2T - 1 = 9 keys, so that a node holds 8 keys at most, and
\* nine ascending keys put into an empty tree leave a root of 1 key over
\* leaves of 4 and 4 keys.
C17_SplitAtNine ==
  [][/\ SplitsAt(MAX_CHILDREN, <<MIN_KEYS, MIN_KEYS>>)
     /\ \A n \in TreeOf(feed') :
           Len(LevelOf(feed', n.seq, n.offset).keys) < MAX_CHILDREN]_vars

\* a put has split a leaf and with it the root above it: the tree has grown
\* to three levels
C17_Witness ==
  /\ last.op = "put" /\ ~last.present
  /\ \E n \in TreeOf(feed) : n.depth = 2
  /\ \A n \in NodesBelow(feed, last.len0 - 1, 0, 0) : n.depth < 2

\* lines 501-527 of del up to the hit: b.ret = [found, node, i, stack], the
\* stack holding the nodes down to node
RECURSIVE delFind(_, _, _, _, _)
delFind(f, b, node, key, stack0) ==
  Try(search(f, b, node, key, 0, Len(b.nodes[node].keys)), LAMBDA b1 :
    IF b1.ret.found \/ Len(b1.nodes[node].children) = 0
    THEN Ret(b1, [found |-> b1.ret.found, node |-> node, i |-> b1.ret.i,
                  stack |-> Append(stack0, node)])
    ELSE Try(getChildNode(f, b1, node, b1.ret.i), LAMBDA b2 :
           delFind(f, b2, b2.ret, key, Append(stack0, node))))

\* what line 513 of del does for key, a key of an inner node of f's tree:
\* the reference the key is replaced by and the references left in the leaf
\* it was taken from
Substituted(f, key) ==
  LET b0 == getRoot(f, Batch(TRUE, 0, 0))
      b1 == delFind(f, b0, b0.ret, key, <<>>)
      b2 == setKeyToNearestLeaf(f, b1, b1.ret.node, b1.ret.i, b1.ret.stack)
      leaf == b2.nodes[b2.ret[Len(b2.ret)]]
  IN IF ~Ok(b2) THEN [ref |-> 0, leaf |-> <<>>]
     ELSE [ref |-> At(b2.nodes[b1.ret.node].keys, b1.ret.i).seq,
           leaf |-> Build(LAMBDA j : leaf.keys[j].seq, 1, Len(leaf.keys))]

\* the keys of the outermost leaf of the subtree of (seq, offset)
RECURSIVE EdgeLeaf(_, _, _, _, _)
EdgeLeaf(f, seq, offset, goLeft, d) ==
  IF NumChildren(LevelOf(f, seq, offset)) = 0 \/ d >= MaxDepth
  THEN LevelOf(f, seq, offset).keys
  ELSE LET l == LevelOf(f, seq, offset)
           c == ChildRef(l, IF goLeft THEN 0 ELSE NumChildren(l) - 1)
       IN EdgeLeaf(f, c.seq, c.offset, goLeft, d + 1)

\* the rightmost leaf of the subtree left of key j of the inner node n
LeftLeaf(f, n, j) ==
  LET c == ChildRef(LevelOf(f, n.seq, n.offset), j)
  IN EdgeLeaf(f, c.seq, c.offset, FALSE, 0)

\* the leftmost leaf of the subtree right of key j of the inner node n
RightLeaf(f, n, j) ==
  LET c == ChildRef(LevelOf(f, n.seq, n.offset), j + 1)
  IN EdgeLeaf(f, c.seq, c.offset, TRUE, 0)

\* key j of the inner node n is to be replaced from the larger of its two
\* nearest leaves, from the right one on a tie when tiesRight
Nearest(f, n, j, tiesRight) ==
  LET left == LeftLeaf(f, n, j)
      right == RightLeaf(f, n, j)
  IN IF Len(left) < Len(right) \/ (tiesRight /\ Len(left) = Len(right))
     THEN [ref |-> Head(right), leaf |-> Tail(right)]
     ELSE [ref |-> left[Len(left)], leaf |-> SubSeq(left, 1, Len(left) - 1)]

\* the keys of the inner nodes of f's tree, each as its node and its position
InnerKeys(f) ==
  UNION {{[n |-> n, j |-> j] : j \in 0..(Len(LevelOf(f, n.seq, n.offset).keys) - 1)} :
           n \in {m \in NodesOfTree(f) : NumChildren(LevelOf(f, m.seq, m.offset)) > 0}}

\* every key of an inner node of the newest tree is replaced as Nearest says
SubstitutesNearest(tiesRight) ==
  \A k \in InnerKeys(feed) :
     Substituted(feed, KeyOfRef(feed, At(LevelOf(feed, k.n.seq, k.n.offset).keys, k.j)))
        = Nearest(feed, k.n, k.j, tiesRight)

\* C18 as stated: del of a key of an inner node replaces it by the adjacent
\* key of the larger of the two nearest leaves and removes that key from the
\* leaf; leaves of one size: the key comes from the right subtree.
C18_SubstituteTiesRight == SubstitutesNearest(TRUE)

\* C18 (amended): as C18, but for leaves of one size the key comes from the
\* rightmost leaf of the left subtree.
C18_SubstituteTiesLeft == SubstitutesNearest(FALSE)

\* the newest tree has three levels and inner keys between leaves of one
\* size, with the larger leaf on the left, and with the larger leaf on the
\* right, and a key of the root is replaced from a leaf two levels below
C18_Witness ==
  /\ \E n \in TreeOf(feed) : n.depth = 2
  /\ \E k \in InnerKeys(feed) : Len(LeftLeaf(feed, k.n, k.j)) > Len(RightLeaf(feed, k.n, k.j))
  /\ \E k \in InnerKeys(feed) : Len(LeftLeaf(feed, k.n, k.j)) < Len(RightLeaf(feed, k.n, k.j))
  /\ \E k \in InnerKeys(feed) :
        /\ Len(LeftLeaf(feed, k.n, k.j)) = Len(RightLeaf(feed, k.n, k.j))
        /\ k.n = [seq |-> Len(feed) - 1, offset |-> 0]
        /\ Substituted(feed, KeyOfRef(feed, At(LevelOf(feed, k.n.seq, k.n.offset).keys, k.j))).ref
             = LeftLeaf(feed, k.n, k.j)[Len(LeftLeaf(feed, k.n, k.j))]

\* the child references of block s of f, over all its levels
ChildSeqsOf(f, s) ==
  UNION {{ChildRef(At(f[s + 1].index, o), i).seq :
            i \in 0..(NumChildren(At(f[s + 1].index, o)) - 1)} :
           o \in 0..(Len(f[s + 1].index) - 1)}

\* C19: in every appended block, from a put or del of the handle or from any
\* block of a batch flush, every child reference has seq >= 1.
C19_NoFreedChildEncoded ==
  \A s \in 1..(Len(feed) - 1) : \A c \in ChildSeqsOf(feed, s) : c >= 1

\* a flush has appended two blocks or more, the last of them publishing a
\* root that the batch has created by splitting a root leaf
C19_Witness ==
  /\ last.op = "flush" /\ last.err = "ok"
  /\ Len(feed) >= last.len0 + 2
  /\ last.len0 >= 2
  /\ HasLevel(feed, last.len0 - 1, 0) /\ HasLevel(feed, Len(feed) - 1, 0)
  /\ NumChildren(LevelOf(feed, last.len0 - 1, 0)) = 0
  /\ NumChildren(LevelOf(feed, Len(feed) - 1, 0)) = 2

\* the entry the put p of the race has written, had it been given seq
RaceEntry(p, seq) == [seq |-> seq, key |-> race.key[p], value |-> RaceVal(p)]

\* the key references and the child references of block s of f
RefsOfBlock(f, s) ==
  ChildSeqsOf(f, s) \cup
  UNION {{At(f[s + 1].index, o).keys[j] : j \in 1..Len(At(f[s + 1].index, o).keys)} :
           o \in 0..(Len(f[s + 1].index) - 1)}

\* both puts are done, having read one log length and one root
Raced ==
  /\ Len(race.order) = 2
  /\ race.at[1] = race.at[2]
  /\ race.len[1] = race.len[2]

\* C20: two puts of distinct keys on one handle, the second started without
\* awaiting the first, can both read the same log length and the same root;
\* both blocks are then appended and the tree is incorrect: the key reference
\* of the put appended second names the block of the put appended first, no
\* reference names the second block, and get does not return both entries.
\* Only a put that reads the root after the other's append has called back
\* leaves a tree that holds both.
C20_UnserializedPuts ==
  Len(race.order) = 2 =>
    LET l == race.at[race.order[1]]
        first == race.order[1]
        second == race.order[2]
    IN /\ Len(feed) = l + 2
       /\ feed[l + 1].key = race.key[first]
       /\ feed[l + 2].key = race.key[second]
       /\ Raced =>
            /\ l \in RefsOfBlock(feed, l + 1)
            /\ \A r \in RefsOfBlock(feed, l + 1) : r <= l
            /\ hget(feed, 0, race.key[second]) # RaceEntry(second, l + 1)
       /\ race.len[second] = l =>
            ~(/\ hget(feed, 0, race.key[first]) = RaceEntry(first, l)
              /\ hget(feed, 0, race.key[second]) = RaceEntry(second, l + 1))
       /\ race.len[second] = l + 1 =>
            /\ hget(feed, 0, race.key[first]) = RaceEntry(first, l)
            /\ hget(feed, 0, race.key[second]) = RaceEntry(second, l + 1)

\* the two puts have raced on a tree of two levels, the first one was appended
\* first, and its key is found no more while the reference of the second key
\* names its block
C20_Witness ==
  /\ Raced
  /\ race.order = <<1, 2>>
  /\ NumChildren(LevelOf(feed, Len(feed) - 1, 0)) > 0
  /\ hget(feed, 0, race.key[1]) = NullEntry
  /\ race.at[1] \in RefsOfBlock(feed, Len(feed) - 1)
  /\ KeyOfRef(feed, race.at[1]) = race.key[1]

====
